---- MODULE Spec2Model ----
(***************************************************************************)
(* Model of runnarr's runtime array: ArrayCStyle<T>, its consuming          *)
(* iterator ArrayIntoIter<T>, and the raw allocator they sit on             *)
(* (src/src/runtime_array.rs).  The element type is i32, as in the tests.   *)
(*                                                                         *)
(* The heap is a set of equally sized blocks.  A block's slots keep their   *)
(* content after the block is returned to the allocator, so that a read     *)
(* through a dangling pointer reads what is physically there; the           *)
(* allocator may overwrite a block it gets back, and hands out              *)
(* uninitialised blocks with arbitrary content.                             *)
(***************************************************************************)
EXTENDS Integers, Sequences, FiniteSets, TLC

MaxLen == 2
MaxVal == 1
MaxAddr == 2
MaxHandles == 2

\* size_of::<i32>() and a scaled-down isize::MAX (an 8-bit address space)
SizeOfT == 4
ISizeMax == 127

Null == 0
Addr == 1..MaxAddr
Val == 0..MaxVal
H == 1..MaxHandles
\* a block holds MaxLen slots and the slot just past them
Slots == 0..MaxLen
\* the smallest element count whose layout cannot be computed
HugeLen == (ISizeMax \div SizeOfT) + 1
Sizes == (0..MaxLen) \cup {HugeLen}
Indices == 0..MaxLen
None == <<>>
Some(x) == <<x>>

\* all sequences over S of length at most n
SeqUpTo(S, n) == UNION {[1..k -> S] : k \in 0..n}

VARIABLES
    mem,        \* mem[a][i]: content of slot i of block a
    live,       \* live[a]: block a is currently allocated
    allocs,     \* allocs[a]: times the allocator handed out block a
    frees,      \* frees[a]: times block a was passed to dealloc
    handles,    \* the ArrayCStyle values of the client: [st, len, ptr]
    it,         \* the ArrayIntoIter value of the client
    unwinding,  \* a panic is propagating: only destructors run
    cloned,     \* some handle has been duplicated by clone()
    layouts,    \* layouts[a]: size of the layout block a was allocated with
    buf,        \* a buffer of the client, the source of from(&buf[..]): [base, len]
    last        \* the last operation, its arguments and its result

vars == <<mem, live, allocs, frees, handles, it, unwinding, cloned, layouts, buf, last>>

\* the client has no buffer
NoBuf == [base |-> Null, len |-> 0]
NoHandle == [st |-> "unused", len |-> 0, ptr |-> Null]
NoIter == [st |-> "unused", start |-> [base |-> Null, off |-> 0],
           end |-> [base |-> Null, off |-> 0], snap |-> <<>>, yielded |-> <<>>]
NoLast == [op |-> "init", h |-> 0, idx |-> 0, val |-> 0, res |-> "ok",
           ref |-> None, items |-> <<>>, fail |-> "none", calls |-> 0, wr |-> 0,
           msg |-> "", err |-> None, p |-> Null]

----
\* The allocator

\* Layout::array::<T>(n): fails when n * size_of::<T>() exceeds isize::MAX
LayoutArray(n) ==
    IF n * SizeOfT > ISizeMax THEN [ok |-> FALSE, size |-> 0]
    ELSE [ok |-> TRUE, size |-> n * SizeOfT]

\* what alloc / alloc_zeroed can return: null, or a block not in use
AllocResults == {Null} \cup {a \in Addr : ~live[a]}

\* contents an n-slot block can have (slots past n are not part of it)
Garbage(n) == {f \in [Slots -> Val] : \A j \in Slots : j >= n => f[j] = 0}

\* a block whose first slot was not cleared
NotZeroed == [j \in Slots |-> IF j = 0 THEN 1 ELSE 0]

\* the content alloc_zeroed gives a block
Zeros == [j \in Slots |-> 0]

\* ptr.add(i) with the offset dropped
PtrAddNoOffset(p, i) == [base |-> p, off |-> 0]

\* ptr.add(i) and the dereference of the resulting pointer
PtrAdd(p, i) == [base |-> p, off |-> i]
Deref(m, p) == m[p.base][p.off]
WriteRef(m, p, v) == [m EXCEPT ![p.base][p.off] = v]

Heap == [mem |-> mem, live |-> live, allocs |-> allocs, frees |-> frees]

\* a successful alloc / alloc_zeroed returning block p with the content c
Allocated(hp, p, c) ==
    [mem |-> [hp.mem EXCEPT ![p] = c],
     live |-> [hp.live EXCEPT ![p] = TRUE],
     allocs |-> [hp.allocs EXCEPT ![p] = @ + 1],
     frees |-> hp.frees]

\* std::alloc::dealloc(p, layout); the allocator leaves the content s behind
dealloc(hp, p, s) ==
    [mem |-> [hp.mem EXCEPT ![p] = s],
     live |-> [hp.live EXCEPT ![p] = FALSE],
     allocs |-> hp.allocs,
     frees |-> [hp.frees EXCEPT ![p] = @ + 1]]

----
\* ArrayCStyle<T>

LayoutErrMsg == "invalid parameters to Layout::from_size_align"
NewNullMsg == "Layout or memory allocation failed"
ZeroedNullMsg == "Layout or memory allocation failed for zeroed array"

\* struct BaseError(pub String): one constructor, whose only field is the
\* message
BaseError(m) == [type |-> "BaseError", msg |-> m]
\* From<LayoutError>::from: the message is the LayoutError's text
FromLayoutError == BaseError(LayoutErrMsg)

\* Ok with the length in bytes
OkBytes(size, p) == [ok |-> TRUE, arr |-> [st |-> "live", len |-> size * SizeOfT, ptr |-> p],
                     fail |-> "none", msg |-> "", err |-> None, calls |-> 1]

Err(kind, m, n) == [ok |-> FALSE, arr |-> NoHandle, fail |-> kind, msg |-> m,
                    err |-> Some(BaseError(m)), calls |-> n]
Ok(size, p) == [ok |-> TRUE, arr |-> [st |-> "live", len |-> size, ptr |-> p],
                fail |-> "none", msg |-> "", err |-> None, calls |-> 1]

\* new going on after a failed layout computation
new_unchecked(size, p) ==
    IF p = Null THEN Err("null", NewNullMsg, 1)
    ELSE Ok(size, p)

\* ArrayCStyle::new(size), p being what the allocator returns when asked
new(size, p) ==
    IF ~LayoutArray(size).ok THEN Err("layout", LayoutErrMsg, 0)
    ELSE IF p = Null THEN Err("null", NewNullMsg, 1)
    ELSE Ok(size, p)

\* ArrayCStyle::zeroed(size)
zeroed(size, p) ==
    IF ~LayoutArray(size).ok THEN Err("layout", LayoutErrMsg, 0)
    ELSE IF p = Null THEN Err("null", ZeroedNullMsg, 1)
    ELSE Ok(size, p)

\* get with the bound off by one
get_inclusive(self, index) ==
    IF index > self.len THEN None ELSE Some(PtrAdd(self.ptr, index))

\* ArrayCStyle::get(&self, index)
get(self, index) ==
    IF index >= self.len THEN None ELSE Some(PtrAdd(self.ptr, index))

\* get_mut returning the first slot whatever the index
get_mut_first(self, index) ==
    IF index >= self.len THEN None ELSE Some(PtrAdd(self.ptr, 0))

\* ArrayCStyle::get_mut(&mut self, index)
get_mut(self, index) ==
    IF index >= self.len THEN None ELSE Some(PtrAdd(self.ptr, index))

\* Option::expect: a panic on None
Expect(o) == [panic |-> o = None, ref |-> o]

\* Index::index and IndexMut::index_mut
index(self, i) == Expect(get(self, i))
index_mut(self, i) == Expect(get_mut(self, i))

\* the exit layout counted in elements
ExitLayoutElems(self) == [ok |-> TRUE, size |-> self.len]

\* the layout deallocate computes: Layout::array::<T>(self.len)
ExitLayout(self) == LayoutArray(self.len)

\* ArrayCStyle::deallocate, which is all that Drop::drop does
deallocate(hp, self, s) == dealloc(hp, self.ptr, s)

\* the contents of the slots of self, in slot order
Contents(m, self) == [i \in 1..self.len |-> m[self.ptr][i - 1]]

\* into_iter forgetting self instead of dropping it
IntoIterForget(hp, self, s) == hp

\* IntoIterator::into_iter(self): the iterator takes copies of the two
\* pointers; self is a local of into_iter and is dropped when it returns
IntoIterDrop(hp, self, s) == deallocate(hp, self, s)

into_iter(hp, self, s) ==
    [iter |-> [st |-> "live",
               start |-> PtrAdd(self.ptr, 0),
               end |-> PtrAdd(self.ptr, self.len),
               snap |-> Contents(hp.mem, self),
               yielded |-> <<>>],
     hp |-> IntoIterDrop(hp, self, s)]

\* next yielding the slot at start and leaving start where it is
next_stay(iter, m, g) ==
    IF iter.start = iter.end
    THEN [item |-> None, iter |-> iter, m |-> m]
    ELSE [item |-> Some(Deref(m, iter.start)),
          iter |-> [iter EXCEPT !.yielded = Append(@, Deref(m, iter.start))],
          m |-> WriteRef(m, iter.start, g)]

\* ArrayIntoIter::next(&mut self); g is what mem::replace leaves in the slot
next(iter, m, g) ==
    IF iter.start = iter.end
    THEN [item |-> None, iter |-> iter, m |-> m]
    ELSE [item |-> Some(Deref(m, iter.start)),
          iter |-> [iter EXCEPT !.start = PtrAdd(@.base, @.off + 1),
                                !.yielded = Append(@, Deref(m, iter.start))],
          m |-> WriteRef(m, iter.start, g)]

\* the loop of from_iter leaving the loop at the first element too many
RECURSIVE from_iter_loop_break(_, _, _, _, _)
from_iter_loop_break(m, array, items, size_hint, idx) ==
    IF idx >= Len(items) \/ idx >= size_hint THEN [m |-> m, panic |-> FALSE, wr |-> idx]
    ELSE LET r == index_mut(array, idx)
         IN  IF r.panic THEN [m |-> m, panic |-> TRUE, wr |-> idx]
             ELSE from_iter_loop_break(WriteRef(m, r.ref[1], items[idx + 1]),
                                       array, items, size_hint, idx + 1)

\* the loop of from_iter: for (index, item) in iter.enumerate()
RECURSIVE from_iter_loop(_, _, _, _, _)
from_iter_loop(m, array, items, size_hint, idx) ==
    IF idx >= Len(items) THEN [m |-> m, panic |-> FALSE, wr |-> idx]
    ELSE IF idx >= size_hint THEN [m |-> m, panic |-> TRUE, wr |-> idx]
    ELSE LET r == index_mut(array, idx)
         IN  IF r.panic THEN [m |-> m, panic |-> TRUE, wr |-> idx]
             ELSE from_iter_loop(WriteRef(m, r.ref[1], items[idx + 1]),
                                 array, items, size_hint, idx + 1)

\* the check after the loop of from_iter
SizeMismatch(size_hint, array) == size_hint # array.len

\* FromIterator::from_iter for an iterator whose size_hint().0 is size_hint
\* and which produces items; p is the allocator's answer, g the content of
\* the fresh block, s what the allocator leaves if the array is dropped
from_iter(hp, size_hint, items, p, g, s) ==
    LET r == new(size_hint, p)
    IN  IF ~r.ok
        THEN [panic |-> TRUE, arr |-> NoHandle, hp |-> hp, fail |-> r.fail,
              calls |-> r.calls, wr |-> 0]
        ELSE LET array == r.arr
                 hp1 == Allocated(hp, p, g)
                 l == from_iter_loop(hp1.mem, array, items, size_hint, 0)
                 hp2 == [hp1 EXCEPT !.mem = l.m]
             IN  IF l.panic \/ SizeMismatch(size_hint, array)
                 THEN [panic |-> TRUE, arr |-> NoHandle,
                       hp |-> deallocate(hp2, array, s), fail |-> "none",
                       calls |-> r.calls, wr |-> l.wr]
                 ELSE [panic |-> FALSE, arr |-> array, hp |-> hp2,
                       fail |-> "none", calls |-> r.calls, wr |-> l.wr]

\* the copy stopping one element early
CopyAllButLast(m, slice, dst) ==
    [m EXCEPT ![dst] = [j \in Slots |-> IF j + 1 < Len(slice) THEN slice[j + 1] ELSE @[j]]]

\* ptr::copy_nonoverlapping(slice.as_ptr(), dst, slice.len())
CopyNonoverlapping(m, slice, dst) ==
    [m EXCEPT ![dst] = [j \in Slots |-> IF j < Len(slice) THEN slice[j + 1] ELSE @[j]]]

\* From<&[T]>::from(slice)
from(hp, slice, p, g) ==
    LET r == new(Len(slice), p)
    IN  IF ~r.ok
        THEN [panic |-> TRUE, arr |-> NoHandle, hp |-> hp, fail |-> r.fail,
              calls |-> r.calls]
        ELSE LET hp1 == Allocated(hp, p, g)
             IN  [panic |-> FALSE, arr |-> r.arr,
                  hp |-> [hp1 EXCEPT !.mem = CopyNonoverlapping(@, slice, p)],
                  fail |-> "none", calls |-> r.calls]

\* #[derive(Clone)]: the clone has the fields of self
clone(self) == [st |-> "live", len |-> self.len, ptr |-> self.ptr]

----
\* The client: any sequence of operations on up to MaxHandles arrays and one
\* consuming iterator.  A panic unwinds the client, which runs the
\* destructors of its live values and nothing else.

Init ==
    /\ mem = [a \in Addr |-> Zeros]
    /\ live = [a \in Addr |-> FALSE]
    /\ allocs = [a \in Addr |-> 0]
    /\ frees = [a \in Addr |-> 0]
    /\ handles = [h \in H |-> NoHandle]
    /\ it = NoIter
    /\ unwinding = FALSE
    /\ cloned = FALSE
    /\ layouts = [a \in Addr |-> 0]
    /\ buf = NoBuf
    /\ last = NoLast

SetHeap(hp) ==
    /\ mem' = hp.mem
    /\ live' = hp.live
    /\ allocs' = hp.allocs
    /\ frees' = hp.frees

\* the allocator's record of the layouts of the blocks in use, after a step
\* in which a block, if one was handed out, was asked for with n elements
SetLayouts(n) ==
    layouts' = [a \in Addr |-> IF ~live'[a] THEN 0
                               ELSE IF live[a] THEN layouts[a]
                               ELSE LayoutArray(n).size]

Live(h) == handles[h].st = "live"
\* the client names its arrays in the order it makes them
Unused(h) == handles[h].st = "unused" /\ \A k \in H : k < h => handles[k].st # "unused"

\* the live handles, other than those in own, whose ptr is p
Pointing(p, own) == {k \in H \ own : Live(k) /\ handles[k].ptr = p}
IterAt(p) == it.st = "live" /\ it.start.base = p

\* what the allocator may leave in an n-slot block p it gets back.  The
\* content of a block nothing points into is not observable: it is kept 0.
Scribbles(p, n, own) ==
    IF Pointing(p, own) # {} \/ IterAt(p) THEN Garbage(n) ELSE {Zeros}

New(h, size) ==
    /\ ~unwinding /\ Unused(h)
    /\ \E p \in AllocResults, g \in Garbage(size) :
         LET r == new(size, p)
         IN  /\ handles' = IF r.ok THEN [handles EXCEPT ![h] = r.arr] ELSE handles
             /\ SetHeap(IF r.ok THEN Allocated(Heap, p, g) ELSE Heap)
             /\ last' = [NoLast EXCEPT !.op = "new", !.h = h, !.p = p, !.idx = size,
                            !.res = IF r.ok THEN "ok" ELSE "err",
                            !.fail = r.fail, !.calls = r.calls, !.msg = r.msg,
                            !.err = r.err]
    /\ SetLayouts(size)
    /\ UNCHANGED <<it, unwinding, cloned, buf>>

Zeroed(h, size) ==
    /\ ~unwinding /\ Unused(h)
    /\ \E p \in AllocResults :
         LET r == zeroed(size, p)
         IN  /\ handles' = IF r.ok THEN [handles EXCEPT ![h] = r.arr] ELSE handles
             /\ SetHeap(IF r.ok THEN Allocated(Heap, p, Zeros) ELSE Heap)
             /\ last' = [NoLast EXCEPT !.op = "zeroed", !.h = h, !.p = p, !.idx = size,
                            !.res = IF r.ok THEN "ok" ELSE "err",
                            !.fail = r.fail, !.calls = r.calls, !.msg = r.msg,
                            !.err = r.err]
    /\ SetLayouts(size)
    /\ UNCHANGED <<it, unwinding, cloned, buf>>

FromIter(h, size_hint, items) ==
    /\ ~unwinding /\ Unused(h)
    /\ \E p \in AllocResults, g \in Garbage(size_hint) :
       \E s \in Scribbles(p, size_hint, {}) :
         LET r == from_iter(Heap, size_hint, items, p, g, s)
         IN  /\ handles' = IF r.panic THEN handles ELSE [handles EXCEPT ![h] = r.arr]
             /\ SetHeap(r.hp)
             /\ unwinding' = r.panic
             /\ last' = [NoLast EXCEPT !.op = "from_iter", !.h = h, !.p = p, !.idx = size_hint,
                            !.items = items,
                            !.res = IF r.panic THEN "panic" ELSE "ok",
                            !.fail = r.fail, !.calls = r.calls, !.wr = r.wr]
    /\ SetLayouts(size_hint)
    /\ UNCHANGED <<it, cloned, buf>>

FromSlice(h, slice) ==
    /\ ~unwinding /\ Unused(h)
    /\ \E p \in AllocResults, g \in Garbage(Len(slice)) :
         LET r == from(Heap, slice, p, g)
         IN  /\ handles' = IF r.panic THEN handles ELSE [handles EXCEPT ![h] = r.arr]
             /\ SetHeap(r.hp)
             /\ unwinding' = r.panic
             /\ last' = [NoLast EXCEPT !.op = "from", !.h = h, !.p = p, !.idx = Len(slice),
                            !.items = slice,
                            !.res = IF r.panic THEN "panic" ELSE "ok",
                            !.fail = r.fail, !.calls = r.calls]
    /\ SetLayouts(Len(slice))
    /\ UNCHANGED <<it, cloned, buf>>

Clone(h, h2) ==
    /\ ~unwinding /\ Live(h) /\ Unused(h2)
    /\ handles' = [handles EXCEPT ![h2] = clone(handles[h])]
    /\ cloned' = TRUE
    /\ last' = [NoLast EXCEPT !.op = "clone", !.h = h2]
    /\ UNCHANGED <<mem, live, allocs, frees, layouts, it, unwinding, buf>>

Get(h, i) ==
    /\ ~unwinding /\ Live(h)
    /\ last' = [NoLast EXCEPT !.op = "get", !.h = h, !.idx = i,
                   !.ref = get(handles[h], i),
                   !.res = IF get(handles[h], i) = None THEN "none" ELSE "some"]
    /\ UNCHANGED <<mem, live, allocs, frees, layouts, handles, it, unwinding, cloned, buf>>

GetMut(h, i) ==
    /\ ~unwinding /\ Live(h)
    /\ last' = [NoLast EXCEPT !.op = "get_mut", !.h = h, !.idx = i,
                   !.ref = get_mut(handles[h], i),
                   !.res = IF get_mut(handles[h], i) = None THEN "none" ELSE "some"]
    /\ UNCHANGED <<mem, live, allocs, frees, layouts, handles, it, unwinding, cloned, buf>>

\* let v = array[i]
Index(h, i) ==
    /\ ~unwinding /\ Live(h)
    /\ LET r == index(handles[h], i)
       IN  /\ unwinding' = r.panic
           /\ last' = [NoLast EXCEPT !.op = "index", !.h = h, !.idx = i,
                          !.ref = r.ref,
                          !.res = IF r.panic THEN "panic" ELSE "ok",
                          !.val = IF r.panic THEN 0 ELSE Deref(mem, r.ref[1])]
    /\ UNCHANGED <<mem, live, allocs, frees, layouts, handles, it, cloned, buf>>

\* array[i] = v
IndexMut(h, i, v) ==
    /\ ~unwinding /\ Live(h)
    /\ LET r == index_mut(handles[h], i)
       IN  /\ unwinding' = r.panic
           /\ mem' = IF r.panic THEN mem ELSE WriteRef(mem, r.ref[1], v)
           /\ last' = [NoLast EXCEPT !.op = "index_mut", !.h = h, !.idx = i,
                          !.ref = r.ref,
                          !.res = IF r.panic THEN "panic" ELSE "ok",
                          !.val = v]
    /\ UNCHANGED <<live, allocs, frees, layouts, handles, it, cloned, buf>>

IntoIter(h) ==
    /\ ~unwinding /\ Live(h) /\ it.st = "unused"
    /\ \E s \in Garbage(handles[h].len) :
         LET r == into_iter(Heap, handles[h], s)
         IN  /\ it' = r.iter
             /\ SetHeap(r.hp)
    /\ handles' = [handles EXCEPT ![h].st = "moved"]
    /\ last' = [NoLast EXCEPT !.op = "into_iter", !.h = h]
    /\ SetLayouts(0)
    /\ UNCHANGED <<unwinding, cloned, buf>>

NextItem ==
    /\ ~unwinding /\ it.st = "live"
    /\ \E g \in (IF Pointing(it.start.base, {}) # {} THEN Val ELSE {0}) :
         LET r == next(it, mem, g)
         IN  /\ it' = r.iter
             /\ mem' = r.m
             /\ last' = [NoLast EXCEPT !.op = "next",
                            !.res = IF r.item = None THEN "none" ELSE "some",
                            !.val = IF r.item = None THEN 0 ELSE r.item[1]]
    /\ UNCHANGED <<live, allocs, frees, layouts, handles, unwinding, cloned, buf>>

\* the elements of the slice &b[..] of a buffer b, as memory m has them
Slice(m, b) == [i \in 1..b.len |-> m[b.base][i - 1]]

\* the client fills a buffer of its own with the elements s
MakeBuf(s) ==
    /\ ~unwinding /\ buf = NoBuf
    /\ \E p \in AllocResults \ {Null} :
         /\ SetHeap(Allocated(Heap, p, [j \in Slots |-> IF j < Len(s) THEN s[j + 1] ELSE 0]))
         /\ buf' = [base |-> p, len |-> Len(s)]
         /\ last' = [NoLast EXCEPT !.op = "make_buf", !.items = s, !.p = p]
    /\ SetLayouts(Len(s))
    /\ UNCHANGED <<handles, it, unwinding, cloned>>

\* buf[i] = v
WriteBuf(i, v) ==
    /\ ~unwinding /\ buf # NoBuf /\ i < buf.len
    /\ mem' = WriteRef(mem, PtrAdd(buf.base, i), v)
    /\ last' = [NoLast EXCEPT !.op = "write_buf", !.idx = i, !.val = v]
    /\ UNCHANGED <<live, allocs, frees, layouts, handles, it, unwinding, cloned, buf>>

\* ArrayCStyle::from(&buf[..])
FromBuf(h) == buf # NoBuf /\ FromSlice(h, Slice(mem, buf))

\* the end of a handle's lifetime: Drop::drop
DropHandle(h) ==
    /\ Live(h)
    /\ \E s \in Scribbles(handles[h].ptr, handles[h].len, {h}) :
         SetHeap(deallocate(Heap, handles[h], s))
    /\ handles' = [handles EXCEPT ![h].st = "dropped"]
    /\ last' = [NoLast EXCEPT !.op = "drop", !.h = h,
                   !.idx = ExitLayout(handles[h]).size,
                   !.res = IF ExitLayout(handles[h]).ok THEN "ok" ELSE "panic"]
    /\ SetLayouts(0)
    /\ UNCHANGED <<it, unwinding, cloned, buf>>

\* the end of the iterator's lifetime: ArrayIntoIter has no destructor
DropIter ==
    /\ it.st = "live"
    /\ it' = [it EXCEPT !.st = "dropped"]
    /\ last' = [NoLast EXCEPT !.op = "drop_iter"]
    /\ UNCHANGED <<mem, live, allocs, frees, layouts, handles, unwinding, cloned, buf>>

\* one produced sequence of each length, its elements differing by position
Ramp(k) == [i \in 1..k |-> i % (MaxVal + 1)]

Access ==
    \/ \E h \in H, i \in Indices : Get(h, i)
    \/ \E h \in H, i \in Indices : GetMut(h, i)
    \/ \E h \in H, i \in Indices : Index(h, i)
    \/ \E h \in H, i \in Indices, v \in Val : IndexMut(h, i, v)

Next ==
    \/ \E h \in H, size \in 0..MaxLen : New(h, size)
    \/ \E h \in H, size \in 0..MaxLen : Zeroed(h, size)
    \/ \E h \in H, size_hint \in 0..MaxLen, k \in 0..(MaxLen + 1) :
         FromIter(h, size_hint, Ramp(k))
    \/ \E h \in H, k \in 0..MaxLen : FromSlice(h, Ramp(k))
    \/ \E h \in H, h2 \in H : Clone(h, h2)
    \/ Access
    \/ \E h \in H : IntoIter(h)
    \/ NextItem
    \/ \E h \in H : DropHandle(h)
    \/ DropIter

Spec == Init /\ [][Next]_vars

\* One construction on a fresh heap, on every input up to the bounds, the
\* array then read and dropped
NextBuild ==
    \/ \E size \in Sizes : New(1, size)
    \/ \E size \in Sizes : Zeroed(1, size)
    \/ \E size_hint \in Sizes, items \in SeqUpTo(Val, MaxLen + 1) :
         FromIter(1, size_hint, items)
    \/ \E slice \in SeqUpTo(Val, MaxLen) : FromSlice(1, slice)
    \/ \E i \in Indices : Index(1, i)
    \/ DropHandle(1)

SpecBuild == Init /\ [][NextBuild]_vars

\* One array of any content, and every access to it at every index
NextAccess ==
    \/ \E size \in 0..MaxLen : New(1, size)
    \/ \E size \in 0..MaxLen : Zeroed(1, size)
    \/ \E slice \in SeqUpTo(Val, MaxLen) : FromSlice(1, slice)
    \/ \E i \in Indices : Get(1, i)
    \/ \E i \in Indices : GetMut(1, i)
    \/ \E i \in Indices : Index(1, i)
    \/ \E i \in Indices, v \in Val : IndexMut(1, i, v)
    \/ DropHandle(1)

SpecAccess == Init /\ [][NextAccess]_vars

\* The life of one allocation whose owner is moved but never duplicated:
\* made, read and written, possibly turned into the iterator, and ended by
\* scope exit or by a panic
NextOwner ==
    \/ \E size \in Sizes : New(1, size)
    \/ \E size \in Sizes : Zeroed(1, size)
    \/ \E size_hint \in Sizes, k \in 0..(MaxLen + 1) : FromIter(1, size_hint, Ramp(k))
    \/ \E slice \in SeqUpTo(Val, MaxLen) : FromSlice(1, slice)
    \/ \E i \in Indices : Index(1, i)
    \/ \E i \in Indices, v \in Val : IndexMut(1, i, v)
    \/ IntoIter(1)
    \/ NextItem
    \/ DropHandle(1)
    \/ DropIter

SpecOwner == Init /\ [][NextOwner]_vars

\* One array copied from a buffer of the client, the two then written
NextSlice ==
    \/ \E s \in SeqUpTo(Val, MaxLen) : MakeBuf(s)
    \/ \E i \in Indices, v \in Val : WriteBuf(i, v)
    \/ FromBuf(1)
    \/ \E i \in Indices : Index(1, i)
    \/ \E i \in Indices, v \in Val : IndexMut(1, i, v)
    \/ DropHandle(1)

SpecSlice == Init /\ [][NextSlice]_vars

----
\* Properties

Made(h) == handles[h].st # "unused"
\* the element count asked for has no layout, or the allocator answered null
LayoutFailed == ~LayoutArray(last.idx).ok
NullReturned == LayoutArray(last.idx).ok /\ last.p = Null
GotBlock == ~LayoutFailed /\ ~NullReturned
NoOwner == (\A h \in H : ~Live(h)) /\ it.st # "live"
IsFromIter == last.op = "from_iter"

\* C1: as long as no handle is duplicated, no block is passed to dealloc
\* more often than it was handed out, and once no array and no iterator is
\* left every block handed out has been passed to dealloc: each allocation
\* is released exactly once.
C1_ReleasedExactlyOnce ==
    ~cloned =>
        /\ \A a \in Addr : frees[a] <= allocs[a]
        /\ \A a \in Addr : live[a] <=> frees[a] < allocs[a]
        /\ NoOwner => \A a \in Addr : frees[a] = allocs[a]

\* an array was turned into an iterator that yielded every slot and went
\* out of scope, and nothing is left
C1_Witness ==
    /\ ~cloned /\ NoOwner
    /\ it.st = "dropped" /\ Len(it.yielded) = MaxLen
    /\ \E h \in H : handles[h].st = "moved"
    /\ \E a \in Addr : allocs[a] = 1 /\ frees[a] = 1

\* C2: into_iter does not release the allocation, and the iterator has
\* released it by the time it has gone out of scope.
C2_IteratorReleases ==
    [][/\ last'.op = "into_iter" => frees' = frees
       /\ last'.op = "drop_iter" =>
            frees'[it.start.base] = frees[it.start.base] + 1]_vars

\* C3: no two live handles have the same backing address.
C3_ExclusiveOwnership ==
    \A h1, h2 \in H :
        (h1 # h2 /\ Live(h1) /\ Live(h2)) => handles[h1].ptr # handles[h2].ptr

\* C4: from_iter on a sequence that produces fewer elements than its size
\* hint panics and returns no array.
C4_TooFewIsFatal ==
    (IsFromIter /\ Len(last.items) < last.idx) =>
        (last.res = "panic" /\ unwinding /\ ~Made(last.h))

\* C5: from_iter on a sequence that produces more elements than its size
\* hint k panics and returns no array; it wrote no slot at an index >= k,
\* and, the block once allocated, it panics on the element after the k-th.
C5_TooManyIsFatal ==
    (IsFromIter /\ Len(last.items) > last.idx) =>
        /\ last.res = "panic" /\ unwinding /\ ~Made(last.h)
        /\ last.wr <= last.idx
        /\ GotBlock =>
             /\ last.wr = last.idx
             /\ \A j \in Slots : j >= last.idx => mem[last.p][j] = 0

C5_Witness ==
    /\ IsFromIter /\ Len(last.items) > last.idx /\ last.idx > 0
    /\ GotBlock /\ last.res = "panic" /\ last.wr = last.idx

C7_Witness ==
    /\ it.st = "live" /\ it.start = it.end /\ Len(it.snap) >= 2
    /\ it.yielded = it.snap /\ last.op = "next" /\ last.res = "none"

IsAccess == last.op \in {"get", "get_mut", "index", "index_mut"}
InRange == last.idx < handles[last.h].len
Slot == PtrAdd(handles[last.h].ptr, last.idx)

C9_WriteReadFrame ==
    [][(last'.op = "index_mut" /\ last'.res = "ok") =>
         LET h == last'.h
             i == last'.idx
             self == handles[h]
         IN  /\ ~index(handles'[h], i).panic
             /\ Deref(mem', index(handles'[h], i).ref[1]) = last'.val
             /\ \A j \in 0..(self.len - 1) :
                  j # i => mem'[self.ptr][j] = mem[self.ptr][j]
             /\ handles'[h].len = self.len
             /\ handles'[h].ptr = self.ptr]_vars

\* a write of a non-zero value to the last slot of a two-slot array
C9_Witness ==
    /\ last.op = "index_mut" /\ last.res = "ok" /\ last.val # 0
    /\ handles[last.h].len >= 2 /\ last.idx = handles[last.h].len - 1
    /\ Deref(mem, Slot) = last.val

IsConstruction == last.op \in {"new", "zeroed", "from_iter", "from"}
Failed == IsConstruction /\ (LayoutFailed \/ NullReturned)

IsNewOrZeroed == last.op \in {"new", "zeroed"}

Read(m, self, i) == Deref(m, index(self, i).ref[1])
WritesSlot(h, i) ==
    last'.op = "index_mut" /\ last'.res = "ok" /\ last'.h = h /\ last'.idx = i

\* C12: every slot of the array zeroed(n) returns reads 0, and a slot that
\* reads 0 goes on reading 0 over every step that is not a write to that
\* slot, a write to another slot included.
C12_ZeroUntilWritten ==
    [][/\ (last'.op = "zeroed" /\ last'.res = "ok") =>
            \A i \in 0..(last'.idx - 1) : Read(mem', handles'[last'.h], i) = 0
       /\ \A h \in H : \A i \in 0..(handles[h].len - 1) :
            (/\ Live(h) /\ handles'[h].st = "live"
             /\ Read(mem, handles[h], i) = 0
             /\ ~WritesSlot(h, i)) => Read(mem', handles'[h], i) = 0]_vars

\* a non-zero value written to the last slot of an array beside a slot
\* that still reads 0
C12_Witness ==
    /\ last.op = "index_mut" /\ last.res = "ok" /\ last.val # 0
    /\ handles[last.h].len = MaxLen /\ last.idx = MaxLen - 1
    /\ Read(mem, handles[last.h], 0) = 0
    /\ Read(mem, handles[last.h], last.idx) = last.val

\* C13: from(slice), the block once allocated, returns an array of the
\* slice's length whose slot i holds the slice's element i; the slice is
\* what it was, the array's block is a fresh allocation apart from the
\* slice's memory, and afterwards a write to the slice changes no slot of
\* the array and a write to the array changes no element of the slice.
C13_CopiedAndIndependent ==
    [][/\ (last'.op = "from" /\ GotBlock') =>
            LET h == last'.h
                items == last'.items
                ptr == handles'[h].ptr
            IN  /\ last'.res = "ok" /\ handles'[h].st = "live"
                /\ items = Slice(mem, buf)
                /\ handles'[h].len = Len(items)
                /\ \A i \in 0..(Len(items) - 1) :
                     Read(mem', handles'[h], i) = items[i + 1]
                /\ buf' = buf /\ Slice(mem', buf') = Slice(mem, buf)
                /\ ptr = last'.p /\ ptr # buf.base
                /\ ~live[ptr] /\ live'[ptr] /\ allocs'[ptr] = allocs[ptr] + 1
       /\ last'.op = "write_buf" =>
            \A h \in H : Live(h) =>
                /\ handles'[h] = handles[h]
                /\ Contents(mem', handles'[h]) = Contents(mem, handles[h])
       /\ last'.op = "index_mut" =>
            (buf' = buf /\ Slice(mem', buf') = Slice(mem, buf))]_vars

\* an array copied from a full buffer, and a write to the buffer that
\* makes the two differ at the slot written
C13_Witness ==
    /\ last.op = "write_buf" /\ buf.len = MaxLen
    /\ Live(1) /\ handles[1].len = MaxLen /\ handles[1].ptr # buf.base
    /\ Read(mem, handles[1], last.idx) # Deref(mem, PtrAdd(buf.base, last.idx))

\* C14: the error value new or zeroed returns carries a message, and the
\* error of a null allocator result is of another kind than the error made
\* from a failed layout computation.
C14_KindsDistinguished ==
    (IsNewOrZeroed /\ last.res = "err") =>
        /\ last.err # None /\ last.err[1].msg # ""
        /\ LayoutFailed => last.err[1] = FromLayoutError
        /\ NullReturned => last.err[1].type # FromLayoutError.type

\* C15: the slot that get, get_mut, array[i] or next() reads or writes is
\* in a block that is allocated at the time of the access.
C15_AccessTouchesLive ==
    [][/\ (last'.op = "next" /\ last'.res = "some") => live[it.start.base]
       /\ (last'.op \in {"get", "get_mut", "index", "index_mut"} /\ last'.ref # None) =>
            live[last'.ref[1].base]]_vars

\* C16: an array's length is the count given at construction and no
\* access changes it (nor the address): the layout computed at release is
\* the layout the block was allocated with.
C16_LengthIsFixed ==
    [][/\ (last'.op \in {"new", "zeroed", "from"} /\ last'.res = "ok") =>
            /\ handles'[last'.h].len = last'.idx
            /\ layouts'[handles'[last'.h].ptr] = LayoutArray(last'.idx).size
       /\ \A h \in H : Live(h) =>
            /\ handles'[h].len = handles[h].len
            /\ handles'[h].ptr = handles[h].ptr
       /\ \A h \in H : handles'[h].st = "live" =>
            /\ ExitLayout(handles'[h]).ok
            /\ ExitLayout(handles'[h]).size = layouts'[handles'[h].ptr]
       /\ last'.op = "drop" =>
            /\ last'.res = "ok"
            /\ last'.idx = layouts[handles[last'.h].ptr]]_vars

\* a full-length array after a get_mut, its exit layout that of its block
C16_Witness ==
    /\ last.op = "get_mut" /\ last.res = "some" /\ Live(last.h)
    /\ handles[last.h].len = MaxLen
    /\ layouts[handles[last.h].ptr] = MaxLen * SizeOfT
    /\ ExitLayout(handles[last.h]).size = MaxLen * SizeOfT

\* C17: a next() that yields moves the start cursor forward by one slot,
\* a next() that returns None leaves it where it is, at the end cursor;
\* nothing else moves it, the end cursor never moves, start never passes
\* end, and the number of values yielded is the number of slots start has
\* passed: no slot is yielded twice.
C17_CursorAdvances ==
    [][/\ last'.op = "next" =>
            /\ it'.end = it.end /\ it'.start.base = it.start.base
            /\ last'.res = "some" =>
                 (it.start # it.end /\ it'.start.off = it.start.off + 1)
            /\ last'.res = "none" => (it.start = it.end /\ it'.start = it.start)
       /\ (last'.op # "next" /\ it.st = "live") =>
            (it'.start = it.start /\ it'.end = it.end)
       /\ it'.st # "unused" =>
            /\ it'.start.off <= it'.end.off
            /\ Len(it'.yielded) = it'.start.off]_vars

\* next() returning None at the end of a full-length array, every slot
\* passed once
C17_Witness ==
    /\ last.op = "next" /\ last.res = "none" /\ it.st = "live"
    /\ it.start = it.end /\ it.start.off = MaxLen /\ Len(it.yielded) = MaxLen

====
